---- MODULE Spec2Model ----
(***************************************************************************)
(* Event extraction and reconciliation pipeline of the scheduling          *)
(* assistant: the intent extractor (task_extractor.py), the remote         *)
(* calendar adapter (calendar_sync.py), the record store (database.py)     *)
(* and the request handlers (main.py).                                     *)
(*                                                                         *)
(* Time is counted in half hours.  A nullable column or an optional key    *)
(* is a tuple: <<>> when NULL or absent, <<v>> when it holds v.            *)
(***************************************************************************)
EXTENDS Integers, Sequences, FiniteSets, TLC

VARIABLES conversations, messages, events, remote, nextRid, now, frames,
          xin, xout

storeVars == <<conversations, messages, events>>
remoteVars == <<remote, nextRid>>
xvars == <<xin, xout>>
vars == <<conversations, messages, events, remote, nextRid, now, frames, xin, xout>>

(***************************************************************************)
(* Bounds of the model: the largest id of a row of each table and of the   *)
(* provider's events, the events of one answer, the clock.                 *)
(***************************************************************************)
MaxConversations == 2
MaxMessages == 3
MaxEvents == 2
MaxRemote == 2
MaxDrafts == 2
MaxNow == 1
MaxRawLen == 3

(***************************************************************************)
(* Program constants.                                                      *)
(***************************************************************************)
\* timedelta(hours=1), in half hours
OneHour == 2

\* the values requests, answers and the calendar's owner choose from
Times == {0, 1}
Contents == {"hi", "yo"}

Max(S) == CHOOSE x \in S : \A y \in S : y <= x

Last(s) == s[Len(s)]

(***************************************************************************)
(* Values of the extractor's payload.  A value of a JSON key is absent,    *)
(* a string (fmt says which shape the text has, t which instant it         *)
(* names) or, once converted, a datetime.                                  *)
(***************************************************************************)
Absent == [kind |-> "absent", fmt |-> "", t |-> 0]

Str(f, t) == [kind |-> "str", fmt |-> f, t |-> t]

DateTime(t) == [kind |-> "datetime", fmt |-> "", t |-> t]

\* the strings a model may put under start_time / end_time: one in the
\* format %Y-%m-%d %H:%M:%S, or some other text
Words == Str("words", 0)

Drafts ==
  [title : {<<>>, <<"a">>},
   start_time : {Absent, Words, Str("ymd_hms", 0)},
   end_time : {Absent, Words, Str("ymd_hms", 1)}]

RECURSIVE SeqsUpTo(_, _)
SeqsUpTo(S, n) ==
  IF n = 0 THEN {<<>>}
  ELSE LET shorter == SeqsUpTo(S, n - 1)
       IN  shorter \cup {Append(q, x) : q \in {p \in shorter : Len(p) = n - 1}, x \in S}

\* the JSON object of a model's answer: "response" may be missing
Payloads(maxd) == [response : {<<>>, <<"Sure! I scheduled it.">>}, events : SeqsUpTo(Drafts, maxd)]

NoBody == [response |-> <<>>, events |-> <<>>]

\* the text of an answer, as tokens: whitespace, a word of prose, a brace,
\* or the members of a JSON object (body)
Tok(c) == [c |-> c, body |-> NoBody]

Body(p) == [c |-> "body", body |-> p]

(***************************************************************************)
(* task_extractor.py                                                       *)
(***************************************************************************)
RECURSIVE lstrip(_)
lstrip(s) == IF s # <<>> /\ Head(s).c = "ws" THEN lstrip(Tail(s)) ELSE s

RECURSIVE rstrip(_)
rstrip(s) == IF s # <<>> /\ Last(s).c = "ws" THEN rstrip(SubSeq(s, 1, Len(s) - 1)) ELSE s

strip(s) == rstrip(lstrip(s))

\* _call_llm: the text of the answer, stripped, or "" when the call raised
call_llm(o) == IF o.failed THEN <<>> ELSE strip(o.content)

Positions(s, c) == {i \in 1..Len(s) : s[i].c = c}

\* raw[raw.index("{") : raw.rindex("}") + 1]; needs both braces to occur
json_str(raw) ==
  LET start == CHOOSE i \in Positions(raw, "{") : \A j \in Positions(raw, "{") : i <= j
      end   == Max(Positions(raw, "}"))
  IN  SubSeq(raw, start, end)

NoWs(s) == SelectSeq(s, LAMBDA tk : tk.c # "ws")

\* json.loads succeeds on an object: { } or { members }
json_ok(s) ==
  LET d == NoWs(s)
  IN  \/ Len(d) = 2 /\ d[1].c = "{" /\ d[2].c = "}"
      \/ Len(d) = 3 /\ d[1].c = "{" /\ d[2].c = "body" /\ d[3].c = "}"

json_loads(s) == LET d == NoWs(s) IN IF Len(d) = 3 THEN d[2].body ELSE NoBody

\* the try block of lines 73-77 raises
parse_fails(raw) ==
  \/ Positions(raw, "{") = {}
  \/ Positions(raw, "}") = {}
  \/ ~json_ok(json_str(raw))

\* datetime.strptime(v, "%Y-%m-%d %H:%M:%S") returns
strptime_ok(v) == v.kind = "str" /\ v.fmt = "ymd_hms"

strptime(v) == DateTime(v.t)

\* lines 88-91: a start_time that does not convert is left as it is
convert_start(ev) ==
  IF strptime_ok(ev.start_time) THEN [ev EXCEPT !.start_time = strptime(@)] ELSE ev

\* line 97 raises: ev["start_time"] is missing (KeyError) or a str (TypeError)
default_end_raises(ev) == ev.start_time.kind # "datetime"

default_end(ev) == [ev EXCEPT !.end_time = DateTime(ev.start_time.t + OneHour)]

\* lines 93-97, on an event whose start_time went through lines 88-91
end_raises(ev) ==
  ev.end_time.kind # "absent" /\ ~strptime_ok(ev.end_time) /\ default_end_raises(ev)

convert_end(ev) ==
  IF ev.end_time.kind = "absent" THEN ev
  ELSE IF strptime_ok(ev.end_time) THEN [ev EXCEPT !.end_time = strptime(@)]
  ELSE default_end(ev)

convert_raises(ev) == end_raises(convert_start(ev))

convert(ev) == convert_end(convert_start(ev))

FallbackNoAnswer ==
  [raised |-> FALSE,
   response |-> <<"I'm here to help you schedule events and manage your calendar. What would you like to do?">>,
   events |-> <<>>]

FallbackParse ==
  [raised |-> FALSE,
   response |-> <<"Sorry, I couldn't understand that. Can you rephrase?">>,
   events |-> <<>>]

Raised == [raised |-> TRUE, response |-> <<>>, events |-> <<>>]

\* lines 86-99
convert_events(data) ==
  IF \E i \in DOMAIN data.events : convert_raises(data.events[i]) THEN Raised
  ELSE [raised |-> FALSE, response |-> data.response, events |-> [i \in DOMAIN data.events |-> convert(data.events[i])]]

\* lines 72-84 without the except clause: the parse error reaches the caller
parse_answer_unguarded(raw) ==
  IF parse_fails(raw) THEN Raised ELSE convert_events(json_loads(json_str(raw)))

\* lines 72-84
parse_answer(raw) ==
  IF parse_fails(raw) THEN FallbackParse ELSE convert_events(json_loads(json_str(raw)))

\* lines 64-99: the result, or raised
extract_events_from_conversation(o) ==
  LET raw == call_llm(o)
  IN  IF raw = <<>> THEN FallbackNoAnswer ELSE parse_answer(raw)

(***************************************************************************)
(* database.py: the record store.  conversations is the set of ids of the  *)
(* Conversation rows, messages the Message rows in the order of their      *)
(* timestamps, events the Event rows by id.                                *)
(***************************************************************************)
\* Integer primary keys on SQLite: the largest id in the table plus one
NewId(ids) == IF ids = {} THEN 1 ELSE Max(ids) + 1

MessageIds == {messages[i].id : i \in DOMAIN messages}

EventIds == DOMAIN events

Row(conv, msg, title, start, end, status, cal, synced) ==
  [conversation_id |-> conv, message_id |-> msg, title |-> title,
   start_time |-> start, end_time |-> end, status |-> status,
   calendar_event_id |-> cal, synced_at |-> synced, user_id |-> "default_user"]

NoRow == Row(<<>>, <<>>, "", <<>>, <<>>, "", <<>>, <<>>)

Without(f, i) == [j \in DOMAIN f \ {i} |-> f[j]]

With(f, i, v) == [j \in DOMAIN f \cup {i} |-> IF j = i THEN v ELSE f[j]]

\* Event.calendar_event_id is unique=True: a flush that would leave two
\* rows with the same non-null value raises IntegrityError
unique_ok(evs) ==
  \A i, j \in DOMAIN evs :
    (i # j /\ evs[i].calendar_event_id # <<>>)
      => evs[i].calendar_event_id # evs[j].calendar_event_id

\* db.query(Event).filter(Event.calendar_event_id == rid).first()
by_calendar_id(rid) == {i \in EventIds : events[i].calendar_event_id = <<rid>>}

\* the query without its filter: the messages of every conversation
messages_of_all(c) == messages

\* db.query(Message).filter(conversation_id == c).order_by(timestamp.asc())
messages_of(c) == SelectSeq(messages, LAMBDA m : m.conversation_id = c)

message_history(c) ==
  LET ms == messages_of(c)
  IN  [i \in DOMAIN ms |-> [role |-> ms[i].role, content |-> ms[i].content]]

(***************************************************************************)
(* calendar_sync.py: the adapter and the provider's calendar.  remote      *)
(* holds the provider's events by id; ids are issued once.  A call is      *)
(* down (no service, or the request raised before it took effect), ok, or  *)
(* lost (it took effect and the answer raised).                            *)
(***************************************************************************)
Outcomes == {"down", "ok", "lost"}

\* datetime.isoformat()
isoformat(t) == Str("iso", t)

\* datetime.fromisoformat(s.replace('Z', '+00:00')) returns
fromisoformat_ok(v) == v.kind = "str" /\ v.fmt \in {"iso", "ymd_hms"}

fromisoformat(v) == v.t

RemoteRec(title, start, end, status) ==
  [title |-> title, start |-> start, end |-> end, status |-> status]

\* lines 55-56 with the hour left out: a missing end is the start
end_or_start(start, end) == IF end = <<>> THEN start ELSE end[1]

\* lines 55-56 and 109-110
end_or_default(start, end) == IF end = <<>> THEN start + OneHour ELSE end[1]

\* create_calendar_event: <<the calendar afterwards, the value returned>>
create_calendar_event(title, start, end, oc) ==
  IF oc = "down" \/ start = <<>> \/ nextRid > MaxRemote
  THEN <<remote, <<>>>>
  ELSE LET body == RemoteRec(title, isoformat(start[1]),
                             isoformat(end_or_default(start[1], end)), "confirmed")
       IN  <<With(remote, nextRid, body), IF oc = "ok" THEN <<nextRid>> ELSE <<>>>>

\* update_calendar_event: <<the calendar afterwards, the value returned>>
update_calendar_event(rid, title, start, end, oc) ==
  IF oc = "down" \/ start = <<>> \/ rid \notin DOMAIN remote
  THEN <<remote, FALSE>>
  ELSE LET body == [remote[rid] EXCEPT !.title = title,
                                       !.start = isoformat(start[1]),
                                       !.end = isoformat(end_or_default(start[1], end))]
       IN  <<With(remote, rid, body), oc = "ok">>

\* delete_calendar_event: <<the calendar afterwards, the value returned>>
delete_calendar_event(rid, oc) ==
  IF oc = "down" \/ rid \notin DOMAIN remote
  THEN <<remote, FALSE>>
  ELSE <<Without(remote, rid), oc = "ok">>

before(a, b) ==
  \/ remote[a].start.t < remote[b].start.t
  \/ remote[a].start.t = remote[b].start.t /\ a <= b

RECURSIVE by_start(_)
by_start(S) ==
  IF S = {} THEN <<>>
  ELSE LET m == CHOOSE x \in S : \A y \in S : before(x, y)
       IN  <<m>> \o by_start(S \ {m})

parsed_event(rid) ==
  [id |-> rid, title |-> remote[rid].title, start_time |-> remote[rid].start,
   end_time |-> remote[rid].end, status |-> remote[rid].status]

\* fetch_upcoming_events: the list returned (orderBy startTime)
fetch_upcoming_events(oc) ==
  IF oc = "ok"
  THEN LET ids == by_start(DOMAIN remote) IN [i \in DOMAIN ids |-> parsed_event(ids[i])]
  ELSE <<>>

(***************************************************************************)
(* main.py: the request handlers.  frames[s] is the request in flight in   *)
(* slot s: the handler, its position, its local variables, the calls it    *)
(* made to the language model and the adapter, and its response.           *)
(***************************************************************************)
NoData == [title |-> "", start_time |-> 0, end_time |-> <<>>]

NoResult == [raised |-> FALSE, response |-> <<>>, events |-> <<>>]

IdleFrame ==
  [op |-> "idle", pc |-> "idle", status |-> 0,
   arg |-> <<>>, msg |-> "", data |-> NoData,
   conv |-> 0, user_msg |-> 0, assistant_msg |-> 0,
   history |-> <<>>, result |-> NoResult,
   event_id |-> 0, loaded |-> NoRow, event |-> NoRow, created_events |-> <<>>,
   fetched |-> <<>>, pending |-> <<>>, count |-> 0,
   calls |-> <<>>, session_ok |-> TRUE, again |-> FALSE]

Slots == {1}

Free(s) == frames[s].pc \in {"idle", "done"}

Call(fn, arg, ret) == [fn |-> fn, arg |-> arg, ret |-> ret]

Bool(b) == IF b THEN <<1>> ELSE <<0>>

\* the request returns: its local variables are gone; what stays is the id
\* it named, its status, the events of a chat's response and, of a sync,
\* the list it fetched and the count it answered
Done(f, status) ==
  [IdleFrame EXCEPT !.op = f.op, !.pc = "done", !.status = status, !.arg = f.arg,
                    !.created_events = f.created_events,
                    !.fetched = f.fetched, !.count = f.count, !.again = f.again]

(***************************************************************************)
(* The extractor on its own: every answer of a bounded shape.              *)
(***************************************************************************)
Shapes == SeqsUpTo({"ws", "w", "{", "}", "body"}, MaxRawLen)

Fill(shape, p) == [i \in DOMAIN shape |-> IF shape[i] = "body" THEN Body(p) ELSE Tok(shape[i])]

Failure == [failed |-> TRUE, content |-> <<>>]

Answer(s) == [failed |-> FALSE, content |-> s]

\* answers of every shape around a few objects, and every object in the
\* shape the prompt asks for
FewPayloads == {p \in Payloads(1) : \A i \in DOMAIN p.events :
                   p.events[i].title # <<>> /\ p.events[i].start_time = Str("ymd_hms", 0)
                   /\ p.events[i].end_time = Absent}

ExtractorInputs ==
  {Failure}
    \cup {Answer(Fill(sh, p)) : sh \in Shapes, p \in FewPayloads}
    \cup {Answer(<<Tok("{"), Body(p), Tok("}")>>) : p \in Payloads(MaxDrafts)}

InitStore ==
  /\ conversations = {}
  /\ messages = <<>>
  /\ events = <<>>
  /\ remote = <<>>
  /\ nextRid = 1
  /\ now = 0

InitExtract ==
  /\ InitStore
  /\ frames = [s \in Slots |-> IdleFrame]
  /\ xin \in {[pc |-> "call", o |-> o] : o \in ExtractorInputs}
  /\ xout = NoResult

ExtractStep ==
  /\ xin.pc = "call"
  /\ xin' = [xin EXCEPT !.pc = "returned"]
  /\ xout' = extract_events_from_conversation(xin.o)
  /\ UNCHANGED <<conversations, messages, events, remote, nextRid, now, frames>>

NextExtract == ExtractStep

SpecExtract == InitExtract /\ [][NextExtract]_vars

(***************************************************************************)
(* POST /chat (main.py 127-230)                                            *)
(***************************************************************************)
\* line 135: if request.conversation_id
conversation_given(cid) == cid # <<>> /\ cid[1] # 0

\* lines 134-145: find the conversation, or create and commit one
chat_begin(s, msg, cid) ==
  /\ Free(s)
  /\ NewId(MessageIds) + 1 <= MaxMessages
  /\ LET f == [IdleFrame EXCEPT !.op = "chat", !.msg = msg, !.arg = cid]
     IN  IF conversation_given(cid)
         THEN /\ frames' = [frames EXCEPT ![s] =
                   IF cid[1] \in conversations
                   THEN [f EXCEPT !.pc = "user_msg", !.conv = cid[1]]
                   ELSE Done(f, 404)]
              /\ UNCHANGED conversations
         ELSE /\ NewId(conversations) <= MaxConversations
              /\ conversations' = conversations \cup {NewId(conversations)}
              /\ frames' = [frames EXCEPT ![s] =
                   [f EXCEPT !.pc = "user_msg", !.conv = NewId(conversations)]]
  /\ UNCHANGED <<messages, events, remote, nextRid, now, xin, xout>>

\* lines 147-155: save the user message
chat_user_message(s) ==
  /\ frames[s].op = "chat" /\ frames[s].pc = "user_msg"
  /\ LET id == NewId(MessageIds)
     IN  /\ messages' = Append(messages, [id |-> id, conversation_id |-> frames[s].conv,
                                          role |-> "user", content |-> frames[s].msg])
         /\ frames' = [frames EXCEPT ![s].user_msg = id, ![s].pc = "history"]
  /\ UNCHANGED <<conversations, events, remote, nextRid, now, xin, xout>>

\* lines 157-165: read the conversation's history
chat_history(s) ==
  /\ frames[s].op = "chat" /\ frames[s].pc = "history"
  /\ frames' = [frames EXCEPT ![s].history = message_history(frames[s].conv),
                              ![s].pc = "extract"]
  /\ UNCHANGED <<conversations, messages, events, remote, nextRid, now, xin, xout>>

\* line 168: call the extractor; the language model gives one of answers
chat_extract(s, answers) ==
  /\ frames[s].op = "chat" /\ frames[s].pc = "extract"
  /\ \E o \in answers :
       LET result == extract_events_from_conversation(o)
           f == [frames[s] EXCEPT !.calls = Append(@, Call("llm", <<>>, <<>>))]
       IN  /\ NewId(EventIds) + Len(result.events) <= MaxEvents + 1
           /\ frames' = [frames EXCEPT ![s] =
                IF result.raised THEN Done(f, 500)
                ELSE [f EXCEPT !.result = result, !.pc = "assistant"]]
  /\ UNCHANGED <<conversations, messages, events, remote, nextRid, now, xin, xout>>

\* lines 170-178: save the assistant message; result["response"] may be missing
chat_assistant_message(s) ==
  /\ frames[s].op = "chat" /\ frames[s].pc = "assistant"
  /\ IF frames[s].result.response = <<>>
     THEN /\ frames' = [frames EXCEPT ![s] = Done(@, 500)]
          /\ UNCHANGED messages
     ELSE LET id == NewId(MessageIds)
          IN  /\ messages' = Append(messages,
                     [id |-> id, conversation_id |-> frames[s].conv,
                      role |-> "assistant", content |-> frames[s].result.response[1]])
              /\ frames' = [frames EXCEPT ![s].assistant_msg = id,
                              ![s].pc = IF frames[s].result.events = <<>> THEN "finish" ELSE "event"]
  /\ UNCHANGED <<conversations, events, remote, nextRid, now, xin, xout>>

\* lines 184-193 raise KeyError: event_data["title"], event_data["start_time"]
draft_key_error(d) == d.title = <<>> \/ d.start_time.kind = "absent"

\* line 195 raises: a DateTime column takes only datetime objects
draft_type_error(d) ==
  \/ d.start_time.kind = "str"
  \/ d.end_time.kind = "str"

column(v) == IF v.kind = "datetime" THEN <<v.t>> ELSE <<>>

\* lines 184-193: the Event built from a draft; status takes its default
event_of_draft(conv, msg, d) ==
  Row(<<conv>>, <<msg>>, d.title[1], column(d.start_time), column(d.end_time),
      "confirmed", <<>>, <<>>)

\* lines 182-196: persist the next draft
chat_persist_event(s) ==
  /\ frames[s].op = "chat" /\ frames[s].pc = "event"
  /\ LET d == Head(frames[s].result.events)
         id == NewId(EventIds)
     IN  IF draft_key_error(d) \/ draft_type_error(d) \/ ~frames[s].session_ok
         THEN /\ frames' = [frames EXCEPT ![s] = Done(@, 500)]
              /\ UNCHANGED events
         ELSE LET row == event_of_draft(frames[s].conv, frames[s].assistant_msg, d)
              IN  /\ events' = With(events, id, row)
                  /\ frames' = [frames EXCEPT ![s].event_id = id, ![s].event = row,
                                              ![s].pc = "sync"]
  /\ UNCHANGED <<conversations, messages, remote, nextRid, now, xin, xout>>

\* lines 210-211 with the first assignment left out
stamped_time_only(row, rid, t) == [row EXCEPT !.synced_at = <<t>>]

\* lines 210-211: stamp the row with the id returned
stamped(row, rid, t) == [row EXCEPT !.calendar_event_id = <<rid>>, !.synced_at = <<t>>]

\* lines 209-211 without the test of line 209: synced_at set whatever came back
sync_result_unconditional(row, returned, t) ==
  [row EXCEPT !.calendar_event_id = returned, !.synced_at = <<t>>]

\* lines 209-211: if calendar_event_id: stamp the row
sync_result(row, returned, t) ==
  IF returned # <<>> THEN stamped(row, returned[1], t) ELSE row

\* lines 198-217: push the event to the calendar
chat_sync_event(s) ==
  /\ frames[s].op = "chat" /\ frames[s].pc = "sync"
  /\ \E oc \in Outcomes :
       LET f == frames[s]
           e == f.event
           r == create_calendar_event(e.title, e.start_time, e.end_time, oc)
           returned == r[2]
           evs == IF f.event_id \in EventIds
                  THEN With(events, f.event_id, sync_result(events[f.event_id], returned, now))
                  ELSE events
           committed == unique_ok(evs) /\ (returned # <<>> => f.event_id \in EventIds)
           rest == Tail(f.result.events)
       IN  /\ remote' = r[1]
           /\ nextRid' = IF r[1] = remote THEN nextRid ELSE nextRid + 1
           /\ events' = IF committed THEN evs ELSE events
           /\ frames' = [frames EXCEPT ![s] =
                [f EXCEPT !.calls = Append(@, Call("create_calendar_event", <<>>, returned)),
                          !.created_events = Append(@, [id |-> f.event_id, returned |-> returned]),
                          !.session_ok = committed,
                          !.result = [@ EXCEPT !.events = rest],
                          !.pc = IF rest = <<>> THEN "finish" ELSE "event"]]
  /\ UNCHANGED <<conversations, messages, now, xin, xout>>

\* lines 219-230: touch the conversation, commit, answer
chat_finish(s) ==
  /\ frames[s].op = "chat" /\ frames[s].pc = "finish"
  /\ frames' = [frames EXCEPT ![s] =
       Done(@, IF frames[s].session_ok /\ frames[s].conv \in conversations THEN 200 ELSE 500)]
  /\ UNCHANGED <<conversations, messages, events, remote, nextRid, now, xin, xout>>

(***************************************************************************)
(* Conversations (main.py 264-293)                                         *)
(***************************************************************************)
get_conversation(s, id) ==
  /\ Free(s)
  /\ frames' = [frames EXCEPT ![s] =
       Done([IdleFrame EXCEPT !.op = "get_conversation", !.arg = <<id>>],
            IF id \in conversations THEN 200 ELSE 404)]
  /\ UNCHANGED <<conversations, messages, events, remote, nextRid, now, xin, xout>>

\* the relationship without its cascade: the messages stay
cascade_none(msgs, id) == msgs

\* cascade="all, delete-orphan": the messages go with the conversation
cascade(msgs, id) == SelectSeq(msgs, LAMBDA m : m.conversation_id # id)

\* lines 278-293
delete_conversation(s, id) ==
  /\ Free(s)
  /\ LET f == [IdleFrame EXCEPT !.op = "delete_conversation", !.arg = <<id>>]
     IN  IF id \in conversations
         THEN /\ conversations' = conversations \ {id}
              /\ messages' = cascade(messages, id)
              /\ frames' = [frames EXCEPT ![s] = Done(f, 200)]
         ELSE /\ frames' = [frames EXCEPT ![s] = Done(f, 404)]
              /\ UNCHANGED <<conversations, messages>>
  /\ UNCHANGED <<events, remote, nextRid, now, xin, xout>>

(***************************************************************************)
(* Events (main.py 325-396)                                                *)
(***************************************************************************)
get_event(s, id) ==
  /\ Free(s)
  /\ frames' = [frames EXCEPT ![s] =
       Done([IdleFrame EXCEPT !.op = "get_event", !.arg = <<id>>],
            IF id \in EventIds THEN 200 ELSE 404)]
  /\ UNCHANGED <<conversations, messages, events, remote, nextRid, now, xin, xout>>

\* lines 356 and 387 with the test always false: the calendar is never told
has_calendar_event_never(row) == FALSE

\* lines 356 and 387: if event.calendar_event_id
has_calendar_event(row) == row.calendar_event_id # <<>>

\* the body of PUT /events/{id}: EventCreate
Updates == [title : {"b"}, start_time : {1}, end_time : {<<0>>}]

\* lines 347-353
assigned(row, data) ==
  [row EXCEPT !.title = data.title, !.start_time = <<data.start_time>>,
              !.end_time = data.end_time]

\* lines 342-353: find the event, assign the fields
update_event_begin(s, id, data) ==
  /\ Free(s)
  /\ LET f == [IdleFrame EXCEPT !.op = "update_event", !.arg = <<id>>, !.data = data]
     IN  frames' = [frames EXCEPT ![s] =
           IF id \notin EventIds THEN Done(f, 404)
           ELSE [f EXCEPT !.event_id = id, !.loaded = events[id],
                          !.event = assigned(events[id], data),
                          !.pc = IF has_calendar_event(events[id]) THEN "remote"
                                 ELSE "commit"]]
  /\ UNCHANGED <<conversations, messages, events, remote, nextRid, now, xin, xout>>

\* lines 355-369: update the calendar's copy; synced_at follows the call
update_event_remote(s) ==
  /\ frames[s].op = "update_event" /\ frames[s].pc = "remote"
  /\ \E oc \in Outcomes :
       LET e == frames[s].event
           rid == e.calendar_event_id[1]
           r == update_calendar_event(rid, e.title, e.start_time, e.end_time, oc)
       IN  /\ remote' = r[1]
           /\ frames' = [frames EXCEPT ![s].event = [e EXCEPT !.synced_at = <<now>>],
                ![s].calls = Append(@, Call("update_calendar_event", <<rid>>, Bool(r[2]))),
                ![s].pc = "commit"]
  /\ UNCHANGED <<conversations, messages, events, nextRid, now, xin, xout>>

\* line 371 with the link to the calendar dropped by the UPDATE
flushed_unlinking(stored, f) ==
  [c \in DOMAIN stored |->
     IF c = "calendar_event_id" THEN <<>>
     ELSE IF \/ c \in {"title", "start_time", "end_time"} /\ f.event[c] # f.loaded[c]
             \/ c = "synced_at" /\ f.calls # <<>>
          THEN f.event[c] ELSE stored[c]]

\* line 371: the UPDATE that the commit flushes sets the columns whose value
\* in the session differs from the value loaded, and synced_at when line 367
\* assigned it (the clock has moved); the other columns keep what the store
\* holds
flushed(stored, f) ==
  [c \in DOMAIN stored |->
     IF \/ c \in {"title", "start_time", "end_time"} /\ f.event[c] # f.loaded[c]
        \/ c = "synced_at" /\ f.calls # <<>>
     THEN f.event[c] ELSE stored[c]]

\* lines 371-374 if a failed remote update ended the request: no commit
update_event_commit_if_synced(s) ==
  /\ frames[s].op = "update_event" /\ frames[s].pc = "commit"
  /\ IF frames[s].event_id \in EventIds
        /\ (frames[s].calls = <<>> \/ Last(frames[s].calls).ret = <<1>>)
     THEN /\ events' = With(events, frames[s].event_id,
                             flushed(events[frames[s].event_id], frames[s]))
          /\ frames' = [frames EXCEPT ![s] = Done(@, 200)]
     ELSE /\ frames' = [frames EXCEPT ![s] = Done(@, 500)]
          /\ UNCHANGED events
  /\ UNCHANGED <<conversations, messages, remote, nextRid, now, xin, xout>>

\* lines 371-374: commit; the row may be gone by now
update_event_commit(s) ==
  /\ frames[s].op = "update_event" /\ frames[s].pc = "commit"
  /\ IF frames[s].event_id \in EventIds
     THEN /\ events' = With(events, frames[s].event_id,
                             flushed(events[frames[s].event_id], frames[s]))
          /\ frames' = [frames EXCEPT ![s] = Done(@, 200)]
     ELSE /\ frames' = [frames EXCEPT ![s] = Done(@, 500)]
          /\ UNCHANGED events
  /\ UNCHANGED <<conversations, messages, remote, nextRid, now, xin, xout>>

\* lines 381-384: find the event
delete_event_begin(s, id) ==
  /\ Free(s)
  /\ LET f == [IdleFrame EXCEPT !.op = "delete_event", !.arg = <<id>>]
     IN  frames' = [frames EXCEPT ![s] =
           IF id \notin EventIds THEN Done(f, 404)
           ELSE [f EXCEPT !.event_id = id, !.event = events[id],
                          !.pc = IF has_calendar_event(events[id]) THEN "remote"
                                 ELSE "commit"]]
  /\ UNCHANGED <<conversations, messages, events, remote, nextRid, now, xin, xout>>

\* lines 386-391: delete the calendar's copy
delete_event_remote(s) ==
  /\ frames[s].op = "delete_event" /\ frames[s].pc = "remote"
  /\ \E oc \in Outcomes :
       LET rid == frames[s].event.calendar_event_id[1]
           r == delete_calendar_event(rid, oc)
       IN  /\ remote' = r[1]
           /\ frames' = [frames EXCEPT
                ![s].calls = Append(@, Call("delete_calendar_event", <<rid>>, Bool(r[2]))),
                ![s].pc = "commit"]
  /\ UNCHANGED <<conversations, messages, events, nextRid, now, xin, xout>>

\* lines 393-396: delete the row, commit
delete_event_commit(s) ==
  /\ frames[s].op = "delete_event" /\ frames[s].pc = "commit"
  /\ IF frames[s].event_id \in EventIds
     THEN /\ events' = Without(events, frames[s].event_id)
          /\ frames' = [frames EXCEPT ![s] = Done(@, 200)]
     ELSE /\ frames' = [frames EXCEPT ![s] = Done(@, 500)]
          /\ UNCHANGED events
  /\ UNCHANGED <<conversations, messages, remote, nextRid, now, xin, xout>>

(***************************************************************************)
(* POST /sync-calendar (main.py 398-433)                                   *)
(***************************************************************************)
\* lines 409-413: a local event carries the remote id
existing(g) == by_calendar_id(g.id) # {}

missing(fetched) == SelectSeq(fetched, LAMBDA g : ~existing(g))

\* line 404: fetch the calendar's upcoming events; again says that the
\* request before this one was a sync that fetched the same list
sync_calendar_begin(s) ==
  /\ Free(s)
  /\ \E oc \in {"down", "ok"} :
       LET fetched == fetch_upcoming_events(oc)
       IN  /\ NewId(EventIds) + Len(missing(fetched)) <= MaxEvents + 1
           /\ frames' = [frames EXCEPT ![s] =
                [IdleFrame EXCEPT !.op = "sync_calendar", !.pc = "scan",
                   !.fetched = fetched,
                   !.calls = <<Call("fetch_upcoming_events", <<>>, <<Len(fetched)>>)>>,
                   !.again = frames[s].op = "sync_calendar" /\ frames[s].fetched = fetched]]
  /\ UNCHANGED <<conversations, messages, events, remote, nextRid, now, xin, xout>>

\* lines 415-424 raise: fromisoformat on start_time or end_time
new_event_raises(g) ==
  \/ ~fromisoformat_ok(g.start_time)
  \/ g.end_time # Absent /\ ~fromisoformat_ok(g.end_time)

\* lines 415-424 with calendar_event_id left out
new_event_unlinked(g, t) ==
  Row(<<>>, <<>>, g.title, <<fromisoformat(g.start_time)>>,
      IF g.end_time # Absent THEN <<fromisoformat(g.end_time)>> ELSE <<>>,
      g.status, <<>>, <<t>>)

\* lines 415-424 with the status left to the column's default
new_event_confirmed(g, t) ==
  Row(<<>>, <<>>, g.title, <<fromisoformat(g.start_time)>>,
      IF g.end_time # Absent THEN <<fromisoformat(g.end_time)>> ELSE <<>>,
      "confirmed", <<g.id>>, <<t>>)

\* lines 415-424 with synced_at left out
new_event_unstamped(g, t) ==
  Row(<<>>, <<>>, g.title, <<fromisoformat(g.start_time)>>,
      IF g.end_time # Absent THEN <<fromisoformat(g.end_time)>> ELSE <<>>,
      g.status, <<g.id>>, <<>>)

\* lines 415-424: the Event made from a remote event
new_event(g, t) ==
  Row(<<>>, <<>>, g.title, <<fromisoformat(g.start_time)>>,
      IF g.end_time # Absent THEN <<fromisoformat(g.end_time)>> ELSE <<>>,
      g.status, <<g.id>>, <<t>>)

\* lines 406-433 committing what was added before the remote event that
\* raised
sync_calendar_scan_partial(s) ==
  /\ frames[s].op = "sync_calendar" /\ frames[s].pc = "scan"
  /\ LET new == missing(frames[s].fetched)
         bad == {i \in DOMAIN new : new_event_raises(new[i])}
         ok == IF bad = {} THEN new
               ELSE SubSeq(new, 1, (CHOOSE i \in bad : \A j \in bad : i <= j) - 1)
     IN  frames' = [frames EXCEPT ![s] =
           [@ EXCEPT !.pending = [i \in DOMAIN ok |-> new_event(ok[i], now)],
                     !.count = Len(ok), !.pc = "commit"]]
  /\ UNCHANGED <<conversations, messages, events, remote, nextRid, now, xin, xout>>

\* lines 406-426: the events to add (the session does not flush before a query)
sync_calendar_scan(s) ==
  /\ frames[s].op = "sync_calendar" /\ frames[s].pc = "scan"
  /\ LET new == missing(frames[s].fetched)
     IN  frames' = [frames EXCEPT ![s] =
           IF \E i \in DOMAIN new : new_event_raises(new[i])
           THEN Done(@, 200)
           ELSE [@ EXCEPT !.pending = [i \in DOMAIN new |-> new_event(new[i], now)],
                          !.count = Len(new), !.pc = "commit"]]
  /\ UNCHANGED <<conversations, messages, events, remote, nextRid, now, xin, xout>>

\* the rows of pending inserted under fresh ids, in order
RECURSIVE inserted(_, _)
inserted(evs, pending) ==
  IF pending = <<>> THEN evs
  ELSE inserted(With(evs, NewId(DOMAIN evs), Head(pending)), Tail(pending))

\* lines 428-433 as an upsert: the rows whose remote event was fetched are
\* stamped again
sync_calendar_commit_upsert(s) ==
  /\ frames[s].op = "sync_calendar" /\ frames[s].pc = "commit"
  /\ LET ins == inserted(events, frames[s].pending)
         ids == {frames[s].fetched[k].id : k \in DOMAIN frames[s].fetched}
         evs == [i \in DOMAIN ins |->
                   IF \E r \in ids : ins[i].calendar_event_id = <<r>>
                   THEN [ins[i] EXCEPT !.synced_at = <<now>>] ELSE ins[i]]
     IN  IF unique_ok(evs)
         THEN /\ events' = evs
              /\ frames' = [frames EXCEPT ![s] = Done(@, 200)]
         ELSE /\ frames' = [frames EXCEPT ![s] = Done([@ EXCEPT !.count = 0], 200)]
              /\ UNCHANGED events
  /\ UNCHANGED <<conversations, messages, remote, nextRid, now, xin, xout>>

\* lines 428-433: commit; a failed commit answers count 0
sync_calendar_commit(s) ==
  /\ frames[s].op = "sync_calendar" /\ frames[s].pc = "commit"
  /\ LET evs == inserted(events, frames[s].pending)
     IN  IF unique_ok(evs)
         THEN /\ events' = evs
              /\ frames' = [frames EXCEPT ![s] = Done(@, 200)]
         ELSE /\ frames' = [frames EXCEPT ![s] = Done([@ EXCEPT !.count = 0], 200)]
              /\ UNCHANGED events
  /\ UNCHANGED <<conversations, messages, remote, nextRid, now, xin, xout>>

(***************************************************************************)
(* The environment: the calendar's owner adds and removes events on the    *)
(* provider's side, and time passes.                                       *)
(***************************************************************************)
ExternalEvents == {RemoteRec("c", isoformat(t), isoformat(t + OneHour), "tentative") : t \in {1}}

external_create ==
  /\ nextRid <= MaxRemote
  /\ \E e \in ExternalEvents : remote' = With(remote, nextRid, e)
  /\ nextRid' = nextRid + 1
  /\ UNCHANGED <<conversations, messages, events, now, frames, xin, xout>>

external_delete ==
  /\ \E rid \in DOMAIN remote : remote' = Without(remote, rid)
  /\ UNCHANGED <<conversations, messages, events, nextRid, now, frames, xin, xout>>

tick ==
  /\ now < MaxNow
  /\ now' = now + 1
  /\ UNCHANGED <<conversations, messages, events, remote, nextRid, frames, xin, xout>>

(***************************************************************************)
(* Requests served one at a time.                                          *)
(***************************************************************************)
\* the answers of the language model: no answer, prose, or an object
ObjectAnswers(payloads) == {Answer(<<Tok("{"), Body(p), Tok("}")>>) : p \in payloads}

\* one draft for each way through lines 86-99 and 182-196: converted with
\* no end, with an end, with the default end; the default raising; no title;
\* no start; a start left as text
Good == Str("ymd_hms", 0)

Draft(title, start, end) == [title |-> title, start_time |-> start, end_time |-> end]

ChatDrafts ==
  {Draft(<<"a">>, Good, Absent), Draft(<<"a">>, Good, Str("ymd_hms", 1)),
   Draft(<<"a">>, Good, Words), Draft(<<"a">>, Words, Words),
   Draft(<<>>, Good, Absent), Draft(<<"a">>, Absent, Absent),
   Draft(<<"a">>, Words, Absent)}

ChatAnswers ==
  {Failure, Answer(<<Tok("w")>>), Answer(<<Tok("{"), Tok("}")>>)}
    \cup ObjectAnswers([response : {<<"Sure! I scheduled it.">>},
                        events : SeqsUpTo(ChatDrafts, MaxDrafts)])

\* a message and the answers that schedule well-formed events
PlainContents == {"hi"}

PlainDrafts == {Draft(<<"a">>, Good, Absent)}

PlainAnswers ==
  {Failure} \cup ObjectAnswers([response : {<<"Sure! I scheduled it.">>},
                                events : SeqsUpTo(PlainDrafts, MaxDrafts)])

ConversationArgs == 0..(MaxConversations + 1)

EventArgs == 1..(MaxEvents + 1)

Init ==
  /\ InitStore
  /\ frames = [s \in Slots |-> IdleFrame]
  /\ xin = [pc |-> "idle", o |-> Failure]
  /\ xout = NoResult

Next ==
  \/ \E msg \in PlainContents, cid \in {<<>>} \cup {<<c>> : c \in ConversationArgs} :
       chat_begin(1, msg, cid)
  \/ chat_user_message(1)
  \/ chat_history(1)
  \/ chat_extract(1, PlainAnswers)
  \/ chat_assistant_message(1)
  \/ chat_persist_event(1)
  \/ chat_sync_event(1)
  \/ chat_finish(1)
  \/ \E id \in ConversationArgs : get_conversation(1, id)
  \/ \E id \in ConversationArgs : delete_conversation(1, id)
  \/ \E id \in EventArgs : get_event(1, id)
  \/ \E id \in EventArgs, data \in Updates : update_event_begin(1, id, data)
  \/ update_event_remote(1)
  \/ update_event_commit(1)
  \/ \E id \in EventArgs : delete_event_begin(1, id)
  \/ delete_event_remote(1)
  \/ delete_event_commit(1)
  \/ sync_calendar_begin(1)
  \/ sync_calendar_scan(1)
  \/ sync_calendar_commit(1)
  \/ external_create
  \/ external_delete
  \/ tick

Spec == Init /\ [][Next]_vars

(***************************************************************************)
(* Chats with every answer of the language model.                          *)
(***************************************************************************)
NextChat ==
  \/ \E msg \in Contents, cid \in {<<>>} \cup {<<c>> : c \in ConversationArgs} :
       chat_begin(1, msg, cid)
  \/ chat_user_message(1)
  \/ chat_history(1)
  \/ chat_extract(1, ChatAnswers)
  \/ chat_assistant_message(1)
  \/ chat_persist_event(1)
  \/ chat_sync_event(1)
  \/ chat_finish(1)
  \/ \E id \in ConversationArgs : get_conversation(1, id)
  \/ \E id \in ConversationArgs : delete_conversation(1, id)

SpecChat == Init /\ [][NextChat]_vars

(***************************************************************************)
(* Properties of POST /chat (SpecChat).                                    *)
(***************************************************************************)
\* the request in flight, before and after a step
F == frames[1]

G == frames'[1]

\* the request takes a step of the handler named
Steps(op) == F.op = op /\ G # F

\* the draft whose row the chat has just persisted
PersistedDraft == Head(F.result.events)

NullsKept(id, evs) ==
  /\ id \in DOMAIN evs
  /\ evs[id].calendar_event_id = <<>>
  /\ evs[id].synced_at = <<>>

\* C3: when create_calendar_event returns null for an event of a chat, the
\* row committed for the draft stays in the store with calendar_event_id
\* and synced_at NULL, the request goes on as it does after a returned id
\* (to the next draft or to the response, its session usable) with the
\* event among those of the response, and the request that reaches its
\* return statement answers 200 with the row still in the store, NULLs kept.
C3_NullCreateNotFatal ==
  [][/\ (Steps("chat") /\ F.pc = "sync" /\ Last(G.calls).ret = <<>>)
          => /\ NullsKept(F.event_id, events')
             /\ G.pc = (IF Len(F.result.events) = 1 THEN "finish" ELSE "event")
             /\ G.session_ok
             /\ G.created_events = Append(F.created_events, [id |-> F.event_id, returned |-> <<>>])
     /\ (Steps("chat") /\ F.pc = "finish"
            /\ \E i \in DOMAIN F.created_events : F.created_events[i].returned = <<>>)
          => /\ G.pc = "done" /\ G.status = 200
             /\ G.created_events = F.created_events
             /\ \A i \in DOMAIN F.created_events :
                  F.created_events[i].returned = <<>> => NullsKept(F.created_events[i].id, events')]_vars

\* C3, reached: a chat answered 200 whose response lists an event for which
\* create_calendar_event returned null, its row in the store with NULLs
C3_Witness ==
  /\ F.op = "chat" /\ F.pc = "done" /\ F.status = 200
  /\ \E i \in DOMAIN F.created_events :
       /\ F.created_events[i].returned = <<>>
       /\ NullsKept(F.created_events[i].id, events)

\* the turns of conversation c, in the order of the messages' timestamps
IsHistoryOf(h, c) ==
  LET idx == {i \in DOMAIN messages : messages[i].conversation_id = c}
  IN  /\ Len(h) = Cardinality(idx)
      /\ \A k \in DOMAIN h :
           \E i \in idx :
             /\ Cardinality({j \in idx : j < i}) = k - 1
             /\ h[k] = [role |-> messages[i].role, content |-> messages[i].content]

UserMessages(ms) == SelectSeq(ms, LAMBDA m : m.role = "user")

\* C8: a chat without conversation_id creates exactly one Conversation and
\* persists exactly one user Message in it, and the history read for the
\* extractor is that one turn; with an existing conversation_id the history
\* is every Message of that conversation in chronological order, the new
\* user message last.  No other step of a chat adds a user Message or a
\* Conversation.
C8_ChatHistory ==
  [][/\ (F.pc \in {"idle", "done"} /\ G # F /\ G.op = "chat" /\ G.arg = <<>>)
          => /\ G.pc = "user_msg"
             /\ G.conv \notin conversations
             /\ conversations' = conversations \cup {G.conv}
             /\ messages' = messages
     /\ (Steps("chat") /\ F.pc = "user_msg")
          => /\ \E id \in 1..MaxMessages :
                  messages' = Append(messages, [id |-> id, conversation_id |-> F.conv,
                                                role |-> "user", content |-> F.msg])
             /\ conversations' = conversations
     /\ (F.op = "chat" /\ F.pc \notin {"idle", "done", "user_msg"})
          => /\ UserMessages(messages') = UserMessages(messages)
             /\ conversations' = conversations
     /\ (Steps("chat") /\ F.pc = "history")
          => /\ G.pc = "extract"
             /\ IsHistoryOf(G.history, F.conv)
             /\ Last(G.history) = [role |-> "user", content |-> F.msg]
             /\ Last(messages).id = F.user_msg
             /\ (F.arg = <<>> => Len(G.history) = 1)]_vars

\* C8, reached: the extractor is about to be called, in an existing
\* conversation, with a history of two different turns, the new one last
C8_Witness ==
  /\ F.op = "chat" /\ F.pc = "extract"
  /\ F.arg # <<>>
  /\ Len(F.history) = 2
  /\ F.history[1] # F.history[2]
  /\ F.history[2].content = F.msg

\* C8, reached in a new conversation while another one has messages
C8_WitnessNew ==
  /\ F.op = "chat" /\ F.pc = "extract"
  /\ F.arg = <<>>
  /\ Len(F.history) = 1
  /\ Len(messages) = 2

\* the request that begins in this step names an id no row has
NamesAbsentId ==
  /\ F.pc \in {"idle", "done"} /\ G # F /\ G.arg # <<>>
  /\ \/ /\ G.op \in {"chat", "get_conversation", "delete_conversation"}
        /\ G.arg[1] \notin conversations
     \/ /\ G.op \in {"get_event", "update_event", "delete_event"}
        /\ G.arg[1] \notin DOMAIN events

\* C10: a request that names an absent id is answered 404 at once, with no
\* Conversation, Message or Event row changed and no call to the calendar
\* adapter or the language model.
C10_AbsentIdNotFound ==
  [][NamesAbsentId
       => /\ G.pc = "done" /\ G.status = 404
          /\ G.calls = <<>>
          /\ UNCHANGED <<conversations, messages, events, remote, nextRid>>]_vars

(***************************************************************************)
(* Properties of the store and the calendar (Spec).                        *)
(***************************************************************************)
\* C2: no two Event rows carry the same non-null calendar_event_id, and
\* once a chat has finished every event for which create_calendar_event
\* returned an id during it carries that id in its row.
C2_RemoteIdUniqueAndStamped ==
  /\ \A i, j \in DOMAIN events :
       (i # j /\ events[i].calendar_event_id # <<>>)
         => events[i].calendar_event_id # events[j].calendar_event_id
  /\ (F.op = "chat" /\ F.pc = "done")
       => \A k \in DOMAIN F.created_events :
            LET c == F.created_events[k]
            IN  c.returned # <<>>
                  => c.id \in DOMAIN events /\ events[c.id].calendar_event_id = c.returned

\* C2, reached: a chat has finished with two events, each stamped with the
\* id returned for it
C2_Witness ==
  /\ F.op = "chat" /\ F.pc = "done" /\ F.status = 200
  /\ Len(F.created_events) = 2
  /\ \A k \in DOMAIN F.created_events :
       /\ F.created_events[k].returned # <<>>
       /\ events[F.created_events[k].id].calendar_event_id = F.created_events[k].returned

\* C4: a sync that follows a sync with nothing in between, and fetches the
\* list the first one fetched, inserts no row and changes none, and answers
\* count 0.
C4_SecondSyncAddsNothing ==
  [][(F.op = "sync_calendar" /\ F.again /\ F.pc \in {"scan", "commit"})
       => /\ events' = events
          /\ (G.pc = "commit" => G.pending = <<>>)
          /\ (G.pc = "done" => G.status = 200 /\ G.count = 0)]_vars

\* C4, reached: the second of two syncs of the same non-empty list has
\* answered count 0, the events of the list in the store
C4_Witness ==
  /\ F.op = "sync_calendar" /\ F.pc = "done" /\ F.again
  /\ F.fetched # <<>>
  /\ F.count = 0
  /\ \A k \in DOMAIN F.fetched :
       \E i \in DOMAIN events : events[i].calendar_event_id = <<F.fetched[k].id>>

DeleteCalls(calls) == SelectSeq(calls, LAMBDA c : c.fn = "delete_calendar_event")

\* C5: DELETE /events/{id} on a row with a calendar_event_id calls
\* delete_calendar_event with that id once, while the row is still in the
\* store, and deletes the row after it; on a row without one it makes no
\* call to the calendar.
C5_RemoteDeleteOnceBeforeLocal ==
  [][/\ (Steps("delete_event") /\ F.pc = "remote")
          => /\ F.calls = <<>>
             /\ Len(G.calls) = 1
             /\ G.calls[1].fn = "delete_calendar_event"
             /\ G.calls[1].arg = events[F.event_id].calendar_event_id
             /\ G.pc = "commit"
             /\ F.event_id \in DOMAIN events'
     /\ (Steps("delete_event") /\ F.pc = "commit")
          => /\ F.event_id \in DOMAIN events
             /\ Len(DeleteCalls(F.calls)) =
                  (IF events[F.event_id].calendar_event_id # <<>> THEN 1 ELSE 0)
             /\ F.calls = DeleteCalls(F.calls)
             /\ remote' = remote
             /\ F.event_id \notin DOMAIN events']_vars

\* C5, reached: the calendar has been told once and the row is still there
C5_Witness ==
  /\ F.op = "delete_event" /\ F.pc = "commit"
  /\ Len(F.calls) = 1
  /\ F.event_id \in DOMAIN events
  /\ <<F.calls[1].arg[1]>> = events[F.event_id].calendar_event_id

\* C5, reached: a row without calendar_event_id is about to be deleted, no
\* call made
C5_WitnessLocal ==
  /\ F.op = "delete_event" /\ F.pc = "commit"
  /\ F.calls = <<>>
  /\ events[F.event_id].calendar_event_id = <<>>

\* the remote operation of the request answered false
RemoteFailed == F.calls # <<>> /\ Last(F.calls).ret = <<0>>

\* C9: when the remote update or deletion of PUT or DELETE /events/{id}
\* failed, the row is updated to the requested title, start_time and
\* end_time, or deleted, all the same, and the request answers 200.
C9_LocalWinsOnRemoteFailure ==
  [][((Steps("update_event") \/ Steps("delete_event")) /\ F.pc = "commit" /\ RemoteFailed)
       => /\ G.pc = "done" /\ G.status = 200
          /\ F.op = "update_event"
               => /\ F.event_id \in DOMAIN events'
                  /\ events'[F.event_id].title = F.data.title
                  /\ events'[F.event_id].start_time = <<F.data.start_time>>
                  /\ events'[F.event_id].end_time = F.data.end_time
          /\ F.op = "delete_event" => F.event_id \notin DOMAIN events']_vars

\* C9, reached: an update answered 200 left a row with the requested title
\* while the calendar's copy keeps another
C9_Witness ==
  /\ F.op = "update_event" /\ F.pc = "done" /\ F.status = 200
  /\ F.arg[1] \in DOMAIN events
  /\ events[F.arg[1]].title = "b"
  /\ events[F.arg[1]].calendar_event_id # <<>>
  /\ events[F.arg[1]].calendar_event_id[1] \in DOMAIN remote
  /\ remote[events[F.arg[1]].calendar_event_id[1]].title # "b"

(***************************************************************************)
(* Properties of the extractor (SpecExtract).                              *)
(***************************************************************************)
\* some part of the text is a JSON object
ContainsJSONObject(s) == \E i, j \in DOMAIN s : i < j /\ json_ok(SubSeq(s, i, j))

GenericReplies == {FallbackNoAnswer.response, FallbackParse.response}

\* C6: when the call to the language model failed, or its answer holds no
\* parsable JSON object, the extractor returns (it does not raise) a result
\* whose reply is one of the two generic replies and whose events are empty.
C6_FallbackOnNoObject ==
  (xin.pc = "returned" /\ (xin.o.failed \/ ~ContainsJSONObject(xin.o.content)))
    => /\ ~xout.raised
       /\ xout.response \in GenericReplies
       /\ xout.events = <<>>

\* C6, reached: an answer with both braces and no object in it was answered
\* with the generic reply
C6_Witness ==
  /\ xin.pc = "returned" /\ ~xin.o.failed
  /\ Positions(xin.o.content, "{") # {} /\ Positions(xin.o.content, "}") # {}
  /\ ~ContainsJSONObject(xin.o.content)
  /\ xout = FallbackParse

\* the object of an answer that is exactly one JSON object
ObjectOf(o) == o.content[2].body

IsObject(o) ==
  /\ ~o.failed /\ Len(o.content) = 3
  /\ o.content[1].c = "{" /\ o.content[2].c = "body" /\ o.content[3].c = "}"

\* C7: for a JSON-valid payload, extraction returns normally, and every
\* event whose end_time is present and not in the format YYYY-MM-DD HH:MM:SS
\* comes back with end_time = start_time + one hour, also when its
\* start_time is missing or was left as a raw string (where the sum is
\* taken over the instant a parsed start_time names).
C7_UnparsableEndDefaulted ==
  (xin.pc = "returned" /\ IsObject(xin.o))
    => /\ ~xout.raised
       /\ \A i \in DOMAIN ObjectOf(xin.o).events :
            LET ev == ObjectOf(xin.o).events[i]
            IN  (ev.end_time.kind = "str" /\ ev.end_time.fmt # "ymd_hms"
                   /\ ev.start_time.kind = "str" /\ ev.start_time.fmt = "ymd_hms")
                  => xout.events[i].end_time = DateTime(ev.start_time.t + OneHour)

(***************************************************************************)
(* Atomicity of POST /chat (SpecChat).                                     *)
(***************************************************************************)
\* C11: a chat that ends in an error leaves none of its writes in the
\* store: not the Conversation it created, not its user Message, not its
\* assistant Message, not an Event of one of its drafts.
C11_ErrorLeavesNoRecords ==
  [][(Steps("chat") /\ F.pc \notin {"idle", "done"} /\ G.pc = "done" /\ G.status # 200)
       => /\ ~conversation_given(F.arg) => F.conv \notin conversations'
          /\ F.user_msg \notin MessageIds'
          /\ F.assistant_msg \notin MessageIds'
          /\ \A e \in DOMAIN events' :
               events'[e].conversation_id = <<F.conv>> => e \in DOMAIN events]_vars

(***************************************************************************)
(* Properties of POST /sync-calendar (Spec).                               *)
(***************************************************************************)
\* a step of a sync request, its first included
SyncSteps == G.op = "sync_calendar" /\ G # F

\* the ids of the remote events of a fetched list
FetchedIds(fetched) == {fetched[k].id : k \in DOMAIN fetched}

\* C12: the sync only adds: no step of a sync deletes a local Event or
\* changes a field of one, synced_at included; so the Events that carry the
\* id of a fetched remote event stay as they were.
C12_SyncAddsOnly ==
  [][SyncSteps => \A i \in DOMAIN events :
                    i \in DOMAIN events' /\ events'[i] = events[i]]_vars

\* a sync has added an Event while an Event made by a chat, earlier, carried
\* the id of another remote event of the list it fetched
C12_Witness ==
  /\ F.op = "sync_calendar" /\ F.pc = "done" /\ F.count >= 1
  /\ \E i \in DOMAIN events :
       /\ events[i].conversation_id # <<>>
       /\ \E r \in FetchedIds(F.fetched) : events[i].calendar_event_id = <<r>>
       /\ events[i].synced_at # <<now>>

\* the remote events of a fetched list that no local Event carries
Uncarried(fetched) ==
  {k \in DOMAIN fetched :
     \A i \in DOMAIN events : events[i].calendar_event_id # <<fetched[k].id>>}

\* the Events that carry the remote id r after the step
CarriersAfter(r) == {i \in DOMAIN events' : events'[i].calendar_event_id = <<r>>}

\* C13: a sync whose commit succeeds inserts, for every remote event it
\* fetched that no local Event carried, exactly one Event, with the remote
\* event's title, start, end and status, its id as calendar_event_id and
\* synced_at set; the count a sync answers is the number of rows it added.
C13_SyncInsertsEachMissingOnce ==
  [][(SyncSteps /\ G.pc = "done")
       => /\ G.count = Cardinality(DOMAIN events' \ DOMAIN events)
          /\ (F.pc = "commit" /\ unique_ok(inserted(events, F.pending)))
               => \A k \in Uncarried(F.fetched) :
                    LET g == F.fetched[k]
                    IN  /\ Cardinality(CarriersAfter(g.id)) = 1
                        /\ \A i \in CarriersAfter(g.id) :
                             /\ i \notin DOMAIN events
                             /\ events'[i].title = g.title
                             /\ events'[i].start_time = <<g.start_time.t>>
                             /\ events'[i].end_time = <<g.end_time.t>>
                             /\ events'[i].status = g.status
                             /\ events'[i].synced_at # <<>>]_vars

\* a sync has answered a count above zero and an Event carries the id, the
\* title and the status of a remote event made on the provider's side
C13_Witness ==
  /\ F.op = "sync_calendar" /\ F.pc = "done" /\ F.count >= 1
  /\ \E i \in DOMAIN events, k \in DOMAIN F.fetched :
       /\ events[i].calendar_event_id = <<F.fetched[k].id>>
       /\ events[i].status = "tentative" /\ events[i].title = F.fetched[k].title
       /\ events[i].conversation_id = <<>>

(***************************************************************************)
(* The adapter on its own (SpecAdapter): every operation, against every    *)
(* state of the provider.  get_calendar_service returns None without       *)
(* credentials, raises (the token does not load or refresh, the consent    *)
(* flow or the client's construction fails) or returns a service; a        *)
(* request through a service raises before it takes effect, succeeds, or   *)
(* takes effect and raises.                                                *)
(***************************************************************************)
Providers ==
  {[service |-> "none", request |-> "none"], [service |-> "raises", request |-> "none"]}
    \cup {[service |-> "service", request |-> r] : r \in {"raises", "ok", "lost"}}

\* calendar_sync.py 12-37
get_calendar_service(p) == p.service

\* the provider as an operation of the adapter meets it
outcome_of(p) ==
  IF get_calendar_service(p) # "service" \/ p.request = "raises" THEN "down" ELSE p.request

\* the body of an operation raises: in get_calendar_service, in a request,
\* on a start_time that is None, on an id the provider does not know
body_raises(fn, a, p) ==
  \/ get_calendar_service(p) = "raises"
  \/ /\ get_calendar_service(p) = "service"
     /\ \/ p.request # "ok"
        \/ fn \in {"create_calendar_event", "update_calendar_event"} /\ a.start = <<>>
        \/ fn \in {"update_calendar_event", "delete_calendar_event"} /\ a.rid \notin DOMAIN remote

\* the except clauses: the value an operation returns when its body raises
on_exception(fn) ==
  CASE fn = "create_calendar_event" -> <<>>
    [] fn = "update_calendar_event" -> FALSE
    [] fn = "delete_calendar_event" -> FALSE
    [] fn = "fetch_upcoming_events" -> <<>>

\* try: body, with the except clause left out
try_uncaught(fn, raises, value) ==
  [raised |-> raises, value |-> IF raises THEN on_exception(fn) ELSE value]

\* try: body / except Exception: return the sentinel
try_except(fn, raises, value) ==
  [raised |-> FALSE, value |-> IF raises THEN on_exception(fn) ELSE value]

\* <<the calendar afterwards, the value returned>> of each operation
adapter_body(fn, a, p) ==
  CASE fn = "create_calendar_event" ->
         create_calendar_event(a.title, a.start, a.end, outcome_of(p))
    [] fn = "update_calendar_event" ->
         update_calendar_event(a.rid, a.title, a.start, a.end, outcome_of(p))
    [] fn = "delete_calendar_event" -> delete_calendar_event(a.rid, outcome_of(p))
    [] fn = "fetch_upcoming_events" -> <<remote, fetch_upcoming_events(outcome_of(p))>>

\* an operation as its caller sees it
adapter_call(fn, a, p) ==
  try_except(fn, body_raises(fn, a, p), adapter_body(fn, a, p)[2])

AdapterOps ==
  {"create_calendar_event", "update_calendar_event",
   "delete_calendar_event", "fetch_upcoming_events"}

AdapterArgs ==
  [rid : 1..MaxRemote, title : {"a"}, start : {<<>>} \cup {<<t>> : t \in Times},
   end : {<<>>} \cup {<<t>> : t \in Times}]

\* the calendars a call finds: empty, or holding an event of its owner
InitAdapter ==
  /\ conversations = {} /\ messages = <<>> /\ events = <<>> /\ now = 0
  /\ \E n \in 0..1 :
       /\ remote \in {[i \in 1..n |-> x] : x \in ExternalEvents}
       /\ nextRid = n + 1
  /\ frames = [s \in Slots |-> IdleFrame]
  /\ xin \in {[pc |-> "call", o |-> [fn |-> fn, a |-> a, p |-> p]] :
                fn \in AdapterOps, a \in AdapterArgs, p \in Providers}
  /\ xout = [raised |-> FALSE, value |-> <<>>]

AdapterStep ==
  /\ xin.pc = "call"
  /\ xin' = [xin EXCEPT !.pc = "returned"]
  /\ xout' = adapter_call(xin.o.fn, xin.o.a, xin.o.p)
  /\ remote' = adapter_body(xin.o.fn, xin.o.a, xin.o.p)[1]
  /\ nextRid' = IF nextRid \in DOMAIN remote' THEN nextRid + 1 ELSE nextRid
  /\ UNCHANGED <<conversations, messages, events, now, frames>>

NextAdapter == AdapterStep

SpecAdapter == InitAdapter /\ [][NextAdapter]_vars

\* the provider is unconfigured, unauthenticated or raises on the call
ProviderFails(p) == p.service # "service" \/ p.request # "ok"

\* C14: when the provider is unconfigured or unauthenticated, or raises on
\* the call, the operation does not raise and returns its sentinel: null
\* from create_calendar_event, false from update_calendar_event and
\* delete_calendar_event, the empty list from fetch_upcoming_events.
C14_SentinelNeverRaises ==
  (xin.pc = "returned" /\ ProviderFails(xin.o.p))
    => /\ ~xout.raised
       /\ xin.o.fn = "create_calendar_event" => xout.value = <<>>
       /\ xin.o.fn = "update_calendar_event" => xout.value = FALSE
       /\ xin.o.fn = "delete_calendar_event" => xout.value = FALSE
       /\ xin.o.fn = "fetch_upcoming_events" => xout.value = <<>>

\* an update of an event the calendar holds has returned false because
\* get_calendar_service raised
C14_Witness ==
  /\ xin.pc = "returned" /\ xin.o.p.service = "raises"
  /\ xin.o.fn = "update_calendar_event" /\ xin.o.a.rid \in DOMAIN remote
  /\ xin.o.a.start # <<>> /\ xout.value = FALSE

(***************************************************************************)
(* Invariants of the Event rows (Spec).                                    *)
(***************************************************************************)
\* C15: every Event with both a start_time and an end_time ends no earlier
\* than it starts.
C15_EndNotBeforeStart ==
  \A i \in DOMAIN events :
    (events[i].start_time # <<>> /\ events[i].end_time # <<>>)
      => events[i].end_time[1] >= events[i].start_time[1]

\* C16: an Event whose calendar_event_id is null has no copy on the
\* calendar: when create_calendar_event, called by a chat for an Event, has
\* made an event on the calendar, the Event carries a calendar_event_id.
C16_NullIdHasNoRemoteCopy ==
  [][(Steps("chat") /\ F.pc = "sync" /\ DOMAIN remote' # DOMAIN remote)
       => /\ F.event_id \in DOMAIN events'
          /\ events'[F.event_id].calendar_event_id # <<>>]_vars

(***************************************************************************)
(* Overlapping PUT /events/{id} (SpecUpdates): two callers, each served    *)
(* by its own thread and session, update the Event that a sync made from   *)
(* an event of the calendar's owner; the provider is up, every remote      *)
(* call succeeds.                                                          *)
(***************************************************************************)
Callers == {1, 2}

OverlapUpdates == [title : {"b", "d"}, start_time : Times, end_time : {<<>>, <<3>>}]

\* the store and the calendar after external_create and a sync
InitUpdates ==
  /\ conversations = {} /\ messages = <<>> /\ now = 0
  /\ \E x \in ExternalEvents :
       /\ remote = <<x>>
       /\ events = <<Row(<<>>, <<>>, x.title, <<x.start.t>>, <<x.end.t>>, x.status, <<1>>, <<0>>)>>
  /\ nextRid = 2
  /\ frames = [s \in Callers |-> IdleFrame]
  /\ xin = [pc |-> "idle", o |-> Failure]
  /\ xout = NoResult

\* lines 355-369 against a provider that is up
update_event_remote_ok(s) ==
  /\ update_event_remote(s)
  /\ Last(frames'[s].calls).ret = <<1>>

NextUpdates ==
  \/ \E s \in Callers, data \in OverlapUpdates : update_event_begin(s, 1, data)
  \/ \E s \in Callers : update_event_remote_ok(s)
  \/ \E s \in Callers : update_event_commit(s)

SpecUpdates == InitUpdates /\ [][NextUpdates]_vars

\* C17: once the overlapping updates of the callers have all finished, the
\* calendar's copy of the Event has the title, the start and the end of
\* the Event row.
C17_LocalRemoteConverge ==
  (\A s \in Callers : /\ frames[s].op = "update_event" /\ frames[s].pc = "done"
                      /\ frames[s].status = 200)
    => \A i \in DOMAIN events :
         LET e == events[i]
             r == remote[e.calendar_event_id[1]]
         IN  /\ r.title = e.title
             /\ r.start = isoformat(e.start_time[1])
             /\ r.end = isoformat(end_or_default(e.start_time[1], e.end_time))

(***************************************************************************)
(* task_extractor.py 126-232: the reminder and the analysis of patterns.   *)
(* An operator returns what the call comes to: raised says that an         *)
(* exception left the function, value is what it returned otherwise.       *)
(***************************************************************************)
Returned(v) == [raised |-> FALSE, value |-> v]

Raises == [raised |-> TRUE, value |-> <<>>]

\* line 167 with the title left out of the text
reminder_untitled(event) ==
  [kind |-> "template", title |-> "", at |-> event.start_time[1]]

\* line 167: f"Reminder: {event.title} coming up at {event.start_time...}"
reminder_template(event) ==
  [kind |-> "template", title |-> event.title, at |-> event.start_time[1]]

\* lines 156-167: the answer's text, stripped; when the call raised, the
\* template, whose strftime raises on a start_time that is None
generate_smart_reminder(event, o) ==
  IF ~o.failed THEN Returned([kind |-> "text", text |-> strip(o.content)])
  ELSE IF event.start_time = <<>> THEN Raises
  ELSE Returned(reminder_template(event))

\* the insights of an answer
Insights(i, s) == [insights |-> i, suggestions |-> s, peak_hours |-> <<>>, peak_days |-> <<>>]

\* lines 227-232: the structure returned when the call or the parse raised
patterns_fallback ==
  Insights(<<"Not enough data to analyze patterns yet">>,
           <<"Keep scheduling events to unlock insights">>)

\* lines 220-221: the text between ```json and the next ```
unfenced(text) ==
  IF text # <<>> /\ Head(text).c = "fence_json"
  THEN LET rest == Tail(text)
           ends == Positions(rest, "fence")
       IN  strip(IF ends = {} THEN rest
                 ELSE SubSeq(rest, 1, (CHOOSE i \in ends : \A j \in ends : i <= j) - 1))
  ELSE text

\* lines 212-232
analyze_user_patterns(evs, o) ==
  IF o.failed THEN Returned(patterns_fallback)
  ELSE LET text == unfenced(strip(o.content))
       IN  IF Len(text) = 3 /\ json_ok(text)
           THEN Returned(text[2].body) ELSE Returned(patterns_fallback)

\* the answers to the reminder prompt and to the analysis prompt
ReminderReplies == {Failure, Answer(<<Tok("ws"), Tok("w")>>)}

AnInsight == Insights(<<"i">>, <<"s">>)

PatternReplies ==
  {Failure, Answer(<<Tok("w")>>),
   Answer(<<Tok("{"), Body(AnInsight), Tok("}")>>),
   Answer(<<Tok("fence_json"), Tok("ws"), Tok("{"), Body(AnInsight), Tok("}"), Tok("fence")>>)}

(***************************************************************************)
(* main.py 44-118: the two periodic jobs of the BackgroundScheduler, and   *)
(* GET /events/insights (SpecJobs).  xin is the scheduler: whether the     *)
(* process runs, and for each job whether it is scheduled, whether a run   *)
(* of it is under way, and how its last run ended; xout is what the last   *)
(* call of a job or of the handler came to.                                *)
(***************************************************************************)
\* the ids of a set, in increasing order
RECURSIVE by_id(_)
by_id(S) ==
  IF S = {} THEN <<>>
  ELSE LET m == CHOOSE x \in S : \A y \in S : x <= y IN <<m>> \o by_id(S \ {m})

\* timedelta(minutes=30), in half hours
ThirtyMinutes == 1

JobIds == {"event_reminders", "behavior_analysis"}

NoJob == [scheduled |-> FALSE, pc |-> "waiting", last |-> "none"]

NoLog ==
  [fn |-> "", raised |-> FALSE, at |-> 0, replies |-> <<>>, histories |-> <<>>,
   reminders |-> <<>>, reply |-> <<>>, insights |-> <<>>]

\* lines 54-58 with the first bound not strict: start_time >= now
upcoming_from_now(t) ==
  {i \in DOMAIN events :
     /\ events[i].start_time # <<>>
     /\ events[i].start_time[1] >= t
     /\ events[i].start_time[1] <= t + ThirtyMinutes
     /\ events[i].status = "confirmed"}

\* lines 54-58
upcoming(t) ==
  {i \in DOMAIN events :
     /\ events[i].start_time # <<>>
     /\ events[i].start_time[1] > t
     /\ events[i].start_time[1] <= t + ThirtyMinutes
     /\ events[i].status = "confirmed"}

\* .limit(20)
HistoryLimit == 20

\* lines 62-64: the first 20 Events of the user of Event i, in the order of
\* their ids
user_events(i) ==
  LET mine == {j \in DOMAIN events : events[j].user_id = events[i].user_id}
      first == {j \in mine : Cardinality({k \in mine : k < j}) < HistoryLimit}
  IN  by_id(first)

\* lines 46-77: a reminder for each upcoming event; a query that raises, or
\* a reminder that raises, leaves the function
check_upcoming_events(store_raises, replies) ==
  IF store_raises
  THEN [NoLog EXCEPT !.fn = "check_upcoming_events", !.raised = TRUE, !.at = now]
  ELSE LET rs == [i \in upcoming(now) |-> generate_smart_reminder(events[i], replies[i])]
       IN  [NoLog EXCEPT !.fn = "check_upcoming_events", !.at = now,
                         !.raised = \E i \in DOMAIN rs : rs[i].raised,
                         !.replies = replies, !.reminders = rs,
                         !.histories = [i \in upcoming(now) |-> user_events(i)]]

\* lines 79-96: the events of the last 30 days are all the events here
analyze_user_behavior(store_raises, o) ==
  IF store_raises THEN [NoLog EXCEPT !.fn = "analyze_user_behavior", !.raised = TRUE]
  ELSE IF events = <<>> THEN [NoLog EXCEPT !.fn = "analyze_user_behavior"]
  ELSE LET r == analyze_user_patterns(events, o)
       IN  [NoLog EXCEPT !.fn = "analyze_user_behavior", !.raised = r.raised,
                         !.reply = <<o>>, !.insights = <<r.value>>]

\* lines 98-118: init_db, add the two jobs, start the scheduler
startup_event ==
  /\ ~xin.started
  /\ xin' = [xin EXCEPT !.started = TRUE,
                        !.jobs = [j \in JobIds |-> [NoJob EXCEPT !.scheduled = TRUE]]]
  /\ UNCHANGED <<conversations, messages, events, remote, nextRid, now, frames, xout>>

\* IntervalTrigger: the interval of the job has elapsed; one instance of a
\* job runs at a time
job_fire(j) ==
  /\ xin.started /\ xin.alive
  /\ xin.jobs[j].scheduled /\ xin.jobs[j].pc = "waiting"
  /\ xin' = [xin EXCEPT !.jobs[j].pc = "running"]
  /\ UNCHANGED <<conversations, messages, events, remote, nextRid, now, frames, xout>>

\* a run that raises takes the process and the scheduler down
after_run_uncaught(sched, j, raised) ==
  [sched EXCEPT !.alive = ~raised,
                !.jobs[j] = [scheduled |-> ~raised, pc |-> "waiting",
                             last |-> IF raised THEN "error" ELSE "ok"]]

\* the scheduler's executor runs the job in a worker thread, logs the
\* exception of a run and keeps the job
after_run(sched, j, raised) ==
  [sched EXCEPT !.jobs[j] = [scheduled |-> TRUE, pc |-> "waiting",
                             last |-> IF raised THEN "error" ELSE "ok"]]

\* a run of check_upcoming_events
run_event_reminders ==
  /\ xin.jobs["event_reminders"].pc = "running"
  /\ \E store_raises \in BOOLEAN, replies \in [upcoming(now) -> ReminderReplies] :
       LET log == check_upcoming_events(store_raises, replies)
       IN  /\ xout' = log
           /\ xin' = after_run(xin, "event_reminders", log.raised)
  /\ UNCHANGED <<conversations, messages, events, remote, nextRid, now, frames>>

\* a run of analyze_user_behavior
run_behavior_analysis ==
  /\ xin.jobs["behavior_analysis"].pc = "running"
  /\ \E store_raises \in BOOLEAN, o \in PatternReplies :
       LET log == analyze_user_behavior(store_raises, o)
       IN  /\ xout' = log
           /\ xin' = after_run(xin, "behavior_analysis", log.raised)
  /\ UNCHANGED <<conversations, messages, events, remote, nextRid, now, frames>>

\* GET /events/insights (main.py 308-323)
get_event_insights(s) ==
  /\ Free(s)
  /\ \E o \in PatternReplies :
       LET r == analyze_user_patterns(events, o)
           f == [IdleFrame EXCEPT !.op = "get_event_insights"]
       IN  IF events = <<>>
           THEN /\ xout' = [NoLog EXCEPT !.fn = "get_event_insights",
                              !.insights = <<[insights |-> <<>>, suggestions |-> <<>>]>>]
                /\ frames' = [frames EXCEPT ![s] = Done(f, 200)]
           ELSE /\ xout' = [NoLog EXCEPT !.fn = "get_event_insights", !.raised = r.raised,
                              !.reply = <<o>>, !.insights = <<r.value>>]
                /\ frames' = [frames EXCEPT ![s] = Done(f, IF r.raised THEN 500 ELSE 200)]
  /\ UNCHANGED <<conversations, messages, events, remote, nextRid, now, xin>>

\* the Events a job finds: made by chats while the provider was down, or
\* by a sync from an event of the calendar's owner
JobRows ==
  {Row(<<1>>, <<2>>, "a", st, <<>>, "confirmed", <<>>, <<>>) :
     st \in {<<>>} \cup {<<t>> : t \in 0..(MaxNow + 1)}}
    \cup {Row(<<>>, <<>>, x.title, <<x.start.t>>, <<x.end.t>>, x.status, <<1>>, <<0>>) :
             x \in ExternalEvents}

MaxJobRows == 2

\* the stores a job finds: a few Events, or more Events than the history of
\* a reminder holds, the last of them upcoming
JobStores ==
  {evs \in SeqsUpTo(JobRows, MaxJobRows) : unique_ok(evs)}
    \cup {[i \in 1..(HistoryLimit + 1) |->
             Row(<<1>>, <<2>>, "a", IF i <= HistoryLimit THEN <<0>> ELSE <<1>>, <<>>,
                 "confirmed", <<>>, <<>>)]}

InitJobs ==
  /\ conversations = {1}
  /\ messages = <<[id |-> 1, conversation_id |-> 1, role |-> "user", content |-> "hi"],
                  [id |-> 2, conversation_id |-> 1, role |-> "assistant",
                   content |-> "Sure! I scheduled it."]>>
  /\ remote = <<>> /\ nextRid = 1
  /\ now = 0
  /\ events \in JobStores
  /\ frames = [s \in Slots |-> IdleFrame]
  /\ xin = [started |-> FALSE, alive |-> TRUE, jobs |-> [j \in JobIds |-> NoJob]]
  /\ xout = NoLog

NextJobs ==
  \/ startup_event
  \/ \E j \in JobIds : job_fire(j)
  \/ run_event_reminders
  \/ run_behavior_analysis
  \/ get_event_insights(1)
  \/ tick

SpecJobs == InitJobs /\ [][NextJobs]_vars

(***************************************************************************)
(* Properties of the reminder and of the analysis (SpecJobs).              *)
(***************************************************************************)
\* when the LLM call fails, each reminder of the last run is the template
\* naming its event and its start, and none raised
ReminderFallsBack ==
  xout.fn = "check_upcoming_events"
    => \A i \in DOMAIN xout.reminders :
         xout.replies[i].failed
           => xout.reminders[i] = Returned([kind |-> "template", title |-> events[i].title,
                                            at |-> events[i].start_time[1]])

\* the last call of analyze_user_patterns met a failed LLM call
AnalysisFailed == xout.reply # <<>> /\ xout.reply[1].failed

\* C18 as amended: when the LLM call fails, generate_smart_reminder returns
\* the template naming the event and its start time, and
\* analyze_user_patterns returns a structure whose insights list and
\* suggestions list hold one fixed sentence each and whose peak_hours and
\* peak_days are empty; neither raises to its caller.
C18_FallbackOnLLMFailure ==
  /\ ReminderFallsBack
  /\ AnalysisFailed
       => /\ ~xout.raised
          /\ xout.insights[1].insights = <<"Not enough data to analyze patterns yet">>
          /\ xout.insights[1].suggestions = <<"Keep scheduling events to unlock insights">>
          /\ xout.insights[1].peak_hours = <<>> /\ xout.insights[1].peak_days = <<>>

\* the analysis job has run on a store with events and its LLM call failed
C18_Witness == xout.fn = "analyze_user_behavior" /\ AnalysisFailed /\ events # <<>>

\* a reminder of the last run of the reminder job is the template
C18_WitnessReminder ==
  /\ xout.fn = "check_upcoming_events"
  /\ \E i \in DOMAIN xout.reminders : xout.replies[i].failed /\ ~xout.reminders[i].raised

\* C18: when the LLM call fails, generate_smart_reminder returns the
\* template naming the event, and analyze_user_patterns returns a structure
\* whose insights list and suggestions list are both empty; neither raises.
C18_FallbackEmptyInsights ==
  /\ xout.fn = "check_upcoming_events"
       => \A i \in DOMAIN xout.reminders :
            xout.replies[i].failed
              => /\ ~xout.reminders[i].raised
                 /\ xout.reminders[i].value.kind = "template"
                 /\ xout.reminders[i].value.title = events[i].title
  /\ AnalysisFailed
       => /\ ~xout.raised
          /\ xout.insights[1].insights = <<>>
          /\ xout.insights[1].suggestions = <<>>

(***************************************************************************)
(* The periodic jobs under the scheduler (SpecJobsFair): the trigger of a  *)
(* scheduled job fires again and again, and a run that began ends.         *)
(***************************************************************************)
\* the scheduler over the stores of JobRows (lines 54-64 read the table)
InitJobsFair == InitJobs /\ Len(events) <= MaxJobRows

SpecJobsFair ==
  /\ InitJobsFair
  /\ [][NextJobs]_vars
  /\ \A j \in JobIds : WF_vars(job_fire(j))
  /\ WF_vars(run_event_reminders) /\ WF_vars(run_behavior_analysis)

MessagesNotOf(ms, c) == SelectSeq(ms, LAMBDA m : m.conversation_id # c)

\* C19: after a DELETE /conversations/{id} that succeeds, the Conversation
\* is gone, no Message of it is left, and the Messages of the other
\* Conversations are what they were.
C19_DeleteCascades ==
  [][(G.op = "delete_conversation" /\ G # F /\ G.status = 200)
       => LET id == G.arg[1]
          IN  /\ id \in conversations /\ id \notin conversations'
              /\ \A k \in DOMAIN messages' : messages'[k].conversation_id # id
              /\ MessagesNotOf(messages', id) = MessagesNotOf(messages, id)]_vars

\* a conversation has been deleted with the Message of id 1, which was its
\* own, while the Messages of another conversation are in the store
C19_Witness ==
  /\ F.op = "delete_conversation" /\ F.pc = "done" /\ F.status = 200
  /\ F.arg[1] \notin conversations
  /\ messages # <<>> /\ 1 \notin MessageIds

(***************************************************************************)
(* One POST /chat and one POST /sync-calendar, overlapping (SpecRace).     *)
(* Each request has its thread and its session; the call of                *)
(* create_calendar_event (main.py 199) and the commit of the id it         *)
(* returned (main.py 212) are two steps, and the other request may run     *)
(* between them.                                                           *)
(***************************************************************************)
\* lines 198-206: create the event on the calendar
chat_create_remote(s) ==
  /\ frames[s].op = "chat" /\ frames[s].pc = "sync"
  /\ \E oc \in Outcomes :
       LET e == frames[s].event
           r == create_calendar_event(e.title, e.start_time, e.end_time, oc)
       IN  /\ remote' = r[1]
           /\ nextRid' = IF r[1] = remote THEN nextRid ELSE nextRid + 1
           /\ frames' = [frames EXCEPT
                ![s].calls = Append(@, Call("create_calendar_event", <<>>, r[2])),
                ![s].pc = "stamp"]
  /\ UNCHANGED <<conversations, messages, events, now, xin, xout>>

\* lines 209-217: stamp the row with the id returned and commit; a commit
\* that the store refuses is caught and leaves the session unusable
chat_stamp(s) ==
  /\ frames[s].op = "chat" /\ frames[s].pc = "stamp"
  /\ LET f == frames[s]
         returned == Last(f.calls).ret
         evs == IF f.event_id \in EventIds
                THEN With(events, f.event_id, sync_result(events[f.event_id], returned, now))
                ELSE events
         committed == unique_ok(evs) /\ (returned # <<>> => f.event_id \in EventIds)
         rest == Tail(f.result.events)
     IN  /\ events' = IF committed THEN evs ELSE events
         /\ frames' = [frames EXCEPT ![s] =
              [f EXCEPT !.created_events = Append(@, [id |-> f.event_id, returned |-> returned]),
                        !.session_ok = committed,
                        !.result = [@ EXCEPT !.events = rest],
                        !.pc = IF rest = <<>> THEN "finish" ELSE "event"]]
  /\ UNCHANGED <<conversations, messages, remote, nextRid, now, xin, xout>>

\* the request of a slot has not begun
NotBegun(s) == frames[s].pc = "idle"

InitRace ==
  /\ InitStore
  /\ frames = [s \in {1, 2} |-> IdleFrame]
  /\ xin = [pc |-> "idle", o |-> Failure]
  /\ xout = NoResult

NextRace ==
  \/ NotBegun(1) /\ \E msg \in PlainContents : chat_begin(1, msg, <<>>)
  \/ chat_user_message(1)
  \/ chat_history(1)
  \/ chat_extract(1, PlainAnswers)
  \/ chat_assistant_message(1)
  \/ chat_persist_event(1)
  \/ chat_create_remote(1)
  \/ chat_stamp(1)
  \/ chat_finish(1)
  \/ NotBegun(2) /\ sync_calendar_begin(2)
  \/ sync_calendar_scan(2)
  \/ sync_calendar_commit(2)

SpecRace == InitRace /\ [][NextRace]_vars

\* C21: when the chat and the sync have both finished, the chat has
\* succeeded and every remote event whose id create_calendar_event returned
\* to the chat is carried by exactly one Event, the row the chat persisted.
C21_OneRowPerCreatedEvent ==
  (frames[1].pc = "done" /\ frames[2].pc = "done")
    => /\ frames[1].status = 200
       /\ \A k \in DOMAIN frames[1].created_events :
            LET c == frames[1].created_events[k]
            IN  c.returned # <<>>
                  => {i \in DOMAIN events : events[i].calendar_event_id = c.returned} = {c.id}

(***************************************************************************)
(* The link between an Event and the calendar (Spec).                      *)
(***************************************************************************)
\* the chat that persisted Event i takes the step that pushes it
CreatingChatPushes(i) == Steps("chat") /\ F.pc = "sync" /\ F.event_id = i

\* C22: the calendar_event_id of an Event changes in one step only, the
\* push by the chat that created it, and then from null; no other step of a
\* request creates an event on the calendar.
C22_NoRetryRemoteIdFixed ==
  [][/\ \A i \in DOMAIN events \cap DOMAIN events' :
          events'[i].calendar_event_id # events[i].calendar_event_id
            => CreatingChatPushes(i) /\ events[i].calendar_event_id = <<>>
     /\ (G # F /\ ~(DOMAIN remote' \subseteq DOMAIN remote))
          => Steps("chat") /\ F.pc = "sync"]_vars

\* an Event that its chat left without calendar_event_id has been updated
\* by a PUT, and a sync has run since, and it still has none
C22_Witness ==
  /\ F.op = "sync_calendar" /\ F.pc = "done"
  /\ \E i \in DOMAIN events :
       /\ events[i].calendar_event_id = <<>>
       /\ events[i].title = "b"

(***************************************************************************)
(* The reminder scan (SpecJobs).                                           *)
(***************************************************************************)
\* Event i is confirmed and starts after t, at most 30 minutes after t
InWindow(i, t) ==
  /\ events[i].status = "confirmed"
  /\ events[i].start_time # <<>>
  /\ events[i].start_time[1] > t
  /\ events[i].start_time[1] <= t + ThirtyMinutes

\* C23: a reminder scan that ends without raising has generated one
\* reminder for each confirmed Event that starts after the time of the scan
\* and at most 30 minutes after it, and for no other Event; the history of
\* each reminder holds at most 20 Events, all of the user of its Event.
C23_RemindersForWindow ==
  (xout.fn = "check_upcoming_events" /\ ~xout.raised)
    => /\ DOMAIN xout.reminders = {i \in DOMAIN events : InWindow(i, xout.at)}
       /\ \A i \in DOMAIN xout.reminders :
            /\ Len(xout.histories[i]) <= HistoryLimit
            /\ \A k \in DOMAIN xout.histories[i] :
                 /\ xout.histories[i][k] \in DOMAIN events
                 /\ events[xout.histories[i][k]].user_id = events[i].user_id

\* a scan has generated a reminder whose history was cut at 20 Events, and
\* none for a confirmed Event that starts at the time of the scan
C23_Witness ==
  /\ xout.fn = "check_upcoming_events" /\ ~xout.raised
  /\ \E i \in DOMAIN xout.reminders :
       /\ Len(xout.histories[i]) = HistoryLimit
       /\ Len(events) > HistoryLimit
  /\ \E j \in DOMAIN events \ DOMAIN xout.reminders :
       events[j].status = "confirmed" /\ events[j].start_time = <<xout.at>>

\* ---------------------------------------------------------------------------
\* C24: in every committed state an Event's synced_at is non-null exactly
\* when its calendar_event_id is non-null, whatever chat, update, delete and
\* sync requests have run, one after the other.
C24_SyncedIffLinked ==
  \A i \in DOMAIN events :
    (events[i].synced_at # <<>>) <=> (events[i].calendar_event_id # <<>>)

\* C24, reached: a PUT has committed while the table holds a linked Event and
\* an Event that was never pushed
C24_Witness ==
  /\ F.op = "update_event" /\ F.pc = "done" /\ F.status = 200
  /\ \E i, j \in DOMAIN events :
       /\ events[i].calendar_event_id # <<>> /\ events[i].synced_at # <<>>
       /\ events[j].calendar_event_id = <<>> /\ events[j].synced_at = <<>>

\* ---------------------------------------------------------------------------
\* C25: a PUT /events/{id} whose update_calendar_event returned false
\* commits the row with the synced_at it had before the request.
C25_FailedUpdateKeepsSyncedAt ==
  [][(/\ Steps("update_event") /\ F.pc = "commit" /\ G.status = 200
      /\ F.calls # <<>> /\ Last(F.calls).ret = Bool(FALSE))
       => events'[F.event_id].synced_at = events[F.event_id].synced_at]_vars

(***************************************************************************)
(* DELETE /events/{id}, then POST /sync-calendar (SpecDeleted): caller 1   *)
(* deletes the Event that carries remote id 1; caller 2 sends its sync     *)
(* requests once the deletion has been answered.  The provider may be      *)
(* down for the deletion and up again for the sync; the calendar's owner   *)
(* adds and removes events meanwhile.                                      *)
(***************************************************************************)
\* line 404, in a request sent after the DELETE was answered with 200
sync_calendar_begin_later(s) ==
  /\ frames[1].op = "delete_event" /\ frames[1].pc = "done" /\ frames[1].status = 200
  /\ sync_calendar_begin(s)

NextDeleted ==
  \/ delete_event_begin(1, 1)
  \/ delete_event_remote(1)
  \/ delete_event_commit(1)
  \/ sync_calendar_begin_later(2)
  \/ sync_calendar_scan(2)
  \/ sync_calendar_commit(2)
  \/ external_create
  \/ external_delete
  \/ tick

SpecDeleted == InitUpdates /\ [][NextDeleted]_vars

\* C26: once DELETE /events/1 has been answered with 200 for the Event with
\* remote id 1, no sync sent afterwards leaves a local Event with
\* calendar_event_id 1, whether the remote deletion succeeded or not.
C26_DeletedStaysDeleted ==
  (frames[1].op = "delete_event" /\ frames[1].pc = "done" /\ frames[1].status = 200)
    => \A i \in DOMAIN events : events[i].calendar_event_id # <<1>>

\* ---------------------------------------------------------------------------
\* C27: in every reachable state, an Event's non-null conversation_id is
\* the id of a Conversation of the store and its non-null message_id the id
\* of a Message of the store, also after DELETE /conversations/{id}.
C27_EventsReferToExistingRows ==
  \A i \in DOMAIN events :
    /\ events[i].conversation_id # <<>> => events[i].conversation_id[1] \in conversations
    /\ events[i].message_id # <<>> => events[i].message_id[1] \in MessageIds

(***************************************************************************)
(* Overlapping POST /sync-calendar (SpecSync): two callers sync against a  *)
(* calendar that holds up to MaxRemote events, some with a start that      *)
(* datetime.fromisoformat rejects.                                         *)
(***************************************************************************)
\* what the provider may hold: events with an ISO start, and one whose
\* start is text of another shape
CalendarEvents ==
  {RemoteRec("c", isoformat(t), isoformat(t + OneHour), "confirmed") : t \in {1, 2}}
    \cup {RemoteRec("c", Str("other", 2), isoformat(3), "confirmed")}

InitSync ==
  /\ conversations = {} /\ messages = <<>> /\ events = <<>> /\ now = 0
  /\ remote \in SeqsUpTo(CalendarEvents, MaxRemote)
  /\ nextRid = Len(remote) + 1
  /\ frames = [s \in Callers |-> IdleFrame]
  /\ xin = [pc |-> "idle", o |-> Failure]
  /\ xout = NoResult

NextSync ==
  \/ \E s \in Callers : sync_calendar_begin(s)
  \/ \E s \in Callers : sync_calendar_scan(s)
  \/ \E s \in Callers : sync_calendar_commit(s)
  \/ tick

SpecSync == InitSync /\ [][NextSync]_vars

\* the step of caller s is the one at which its sync fails: the loop meets
\* a remote event whose time does not parse, or the store rejects the commit
SyncFails(s) ==
  \/ /\ frames[s].pc = "scan"
     /\ \E k \in DOMAIN frames[s].fetched :
          ~existing(frames[s].fetched[k]) /\ new_event_raises(frames[s].fetched[k])
  \/ /\ frames[s].pc = "commit"
     /\ \E k \in DOMAIN frames[s].pending :
          by_calendar_id(frames[s].pending[k].calendar_event_id[1]) # {}

\* C28: a sync in which one remote event fails (its time does not parse, or
\* the store rejects the insert) adds no Event at all, not even those of the
\* remote events before it in the list, and answers count 0.
C28_SyncAllOrNothing ==
  [][\A s \in Callers :
       (frames[s].op = "sync_calendar" /\ frames'[s] # frames[s] /\ SyncFails(s))
         => /\ events' = events
            /\ frames'[s].pc = "done" /\ frames'[s].count = 0]_vars

\* C28, reached: a sync has ended with count 0 and an empty table although
\* the first remote event of its list parsed and only the second did not
C28_Witness ==
  \E s \in Callers :
    /\ frames[s].op = "sync_calendar" /\ frames[s].pc = "done"
    /\ Len(frames[s].fetched) = 2
    /\ ~new_event_raises(frames[s].fetched[1]) /\ new_event_raises(frames[s].fetched[2])
    /\ frames[s].count = 0 /\ events = <<>>

(***************************************************************************)
(* reminder_system.py (SpecReminders): ReminderSystem.  xin is the object  *)
(* and its monitor thread (tasks, and the thread's position, the now it    *)
(* read, the index of its iterator over tasks, its list due); xout is      *)
(* what the two methods printed: the reminders set and the reminders       *)
(* triggered, each with the clock at the print.  A time is None (<<>>) or  *)
(* a datetime that compares with datetime.now().                           *)
(***************************************************************************)
MaxReminders == 3

ReminderTasks == {"a"}

ReminderTimes == {<<>>} \cup {<<t>> : t \in 0..MaxNow}

Reminder(task, t) == [task |-> task, t |-> t]

\* line 24 with the comparison left out: every reminder with a time is due
is_due_any(t, n) == t # <<>>

\* line 24: if t and now >= t
is_due(t, n) == t # <<>> /\ n >= t[1]

\* list.remove(x): the list without its first item equal to x
RECURSIVE list_remove(_, _)
list_remove(l, x) ==
  IF l = <<>> THEN <<>>
  ELSE IF Head(l) = x THEN Tail(l) ELSE <<Head(l)>> \o list_remove(Tail(l), x)

\* lines 7-11: tasks = [], the monitor thread started
InitReminders ==
  /\ InitStore
  /\ frames = [s \in Slots |-> IdleFrame]
  /\ xin = [tasks |-> <<>>, pc |-> "loop", now_read |-> 0, i |-> 1, due |-> <<>>]
  /\ xout = [set |-> <<>>, triggered |-> <<>>]

\* lines 13-16: check_and_remind(task, time_obj), from any thread
check_and_remind(task, time_obj) ==
  /\ Len(xout.set) < MaxReminders
  /\ xin' = [xin EXCEPT !.tasks = Append(@, Reminder(task, time_obj))]
  /\ xout' = [xout EXCEPT !.set = Append(@, Reminder(task, time_obj))]
  /\ UNCHANGED <<conversations, messages, events, remote, nextRid, now, frames>>

\* lines 20-22: now = datetime.now(); due = []; the iterator over tasks
monitor_now ==
  /\ xin.pc = "loop"
  /\ xin' = [xin EXCEPT !.now_read = now, !.due = <<>>, !.i = 1, !.pc = "scan"]
  /\ UNCHANGED <<conversations, messages, events, remote, nextRid, now, frames, xout>>

\* lines 23-25: the iterator's next item, seen at the index it has reached
\* in the list as it is now; exhausted, the loop over due begins
monitor_scan ==
  /\ xin.pc = "scan"
  /\ xin' = IF xin.i <= Len(xin.tasks)
            THEN [xin EXCEPT !.i = @ + 1,
                    !.due = IF is_due(xin.tasks[xin.i].t, xin.now_read)
                            THEN Append(@, xin.tasks[xin.i]) ELSE @]
            ELSE [xin EXCEPT !.pc = IF xin.due = <<>> THEN "sleep" ELSE "trigger"]
  /\ UNCHANGED <<conversations, messages, events, remote, nextRid, now, frames, xout>>

\* line 29: print the reminder
monitor_trigger ==
  /\ xin.pc = "trigger"
  /\ xout' = [xout EXCEPT !.triggered =
       Append(@, [task |-> Head(xin.due).task, t |-> Head(xin.due).t, at |-> now])]
  /\ xin' = [xin EXCEPT !.pc = "remove"]
  /\ UNCHANGED <<conversations, messages, events, remote, nextRid, now, frames>>

\* lines 30-34: the beep sounds or raises RuntimeError, which is caught;
\* the reminder is removed from tasks
monitor_remove ==
  /\ xin.pc = "remove"
  /\ \E beep \in {"sounds", "RuntimeError"} :
       xin' = [xin EXCEPT !.tasks = list_remove(@, Head(xin.due)),
                          !.due = Tail(@),
                          !.pc = IF Tail(xin.due) = <<>> THEN "sleep" ELSE "trigger"]
  /\ UNCHANGED <<conversations, messages, events, remote, nextRid, now, frames, xout>>

\* line 36: time.sleep(5) returns
monitor_sleep ==
  /\ xin.pc = "sleep"
  /\ xin' = [xin EXCEPT !.pc = "loop"]
  /\ UNCHANGED <<conversations, messages, events, remote, nextRid, now, frames, xout>>

monitor ==
  \/ monitor_now
  \/ monitor_scan
  \/ monitor_trigger
  \/ monitor_remove
  \/ monitor_sleep

NextReminders ==
  \/ \E task \in ReminderTasks, time_obj \in ReminderTimes : check_and_remind(task, time_obj)
  \/ monitor
  \/ tick

SpecReminders == InitReminders /\ [][NextReminders]_vars

\* the monitor thread keeps running (a thread of a live process, never
\* blocked but in its sleep), and the clock advances
SpecRemindersFair ==
  /\ InitReminders /\ [][NextReminders]_vars
  /\ WF_vars(monitor) /\ WF_vars(tick)

\* the reminders that may be registered, those with a time, and how often
\* one was set, was triggered, is pending; the reminder printed and not yet
\* removed is in the monitor's hand
ReminderValues == [task : ReminderTasks, t : ReminderTimes]

TimedReminders == {v \in ReminderValues : v.t # <<>>}

SetCount(v) == Cardinality({k \in DOMAIN xout.set : xout.set[k] = v})

TriggerCount(v) ==
  Cardinality({k \in DOMAIN xout.triggered :
                 xout.triggered[k].task = v.task /\ xout.triggered[k].t = v.t})

PendingCount(v) == Cardinality({k \in DOMAIN xin.tasks : xin.tasks[k] = v})

InHand(v) == IF xin.pc = "remove" /\ Head(xin.due) = v THEN 1 ELSE 0

\* never triggered more often than set, never before its time; pending are
\* the reminders set and not triggered; one without a time is never
\* triggered and stays pending
RemindersSafe ==
  /\ \A v \in ReminderValues :
       /\ TriggerCount(v) <= SetCount(v)
       /\ PendingCount(v) = SetCount(v) - TriggerCount(v) + InHand(v)
       /\ v.t = <<>> => TriggerCount(v) = 0 /\ PendingCount(v) = SetCount(v)
  /\ \A k \in DOMAIN xout.triggered :
       xout.triggered[k].t # <<>> /\ xout.triggered[k].at >= xout.triggered[k].t[1]

====
